---- MODULE Spec2Model ----
(***************************************************************************)
(* Model of the MCP database server (server/postgres_db.py) and of the     *)
(* client orchestration loop (client/db_client.py).                        *)
(*                                                                         *)
(* Text typed at a prompt is a sequence of one-character strings, so that  *)
(* str.lower() and the comparisons of the loop are computed, not assumed.  *)
(* An Optional value is a sequence of length at most one: <<>> is None.    *)
(***************************************************************************)
EXTENDS Integers, Sequences, FiniteSets, TLC

VARIABLES
    \* ---- client: structured_chat_loop ----
    pc,               \* position of the loop
    user_input,       \* local user_input      (line 54)
    task_description, \* local task_description (line 62)
    task,             \* local task: Optional TaskRequest (line 64)
    proceed,          \* local proceed         (line 75)
    agent_call,       \* the outstanding agent.run call, Optional
    session,          \* client session: "open" / "closed"
    exc,              \* exception propagating out of the loop, Optional
    display,          \* what the last step printed
    event,            \* what the last step of the loop was
    \* ---- server: postgres_db ----
    db,               \* committed database state
    spc,              \* position of each server call
    req,              \* request of each server call
    cols,             \* local cols of sample_data_resource, Optional, per call
    cursor,           \* CursorResult of conn.execute, Optional, per call
    checked_out,      \* calls holding a pool connection
    caught,           \* exception caught inside each call, Optional
    ret,              \* value returned by each call, Optional
    raised            \* exception that escaped each call, Optional

cvars == <<pc, user_input, task_description, task, proceed, agent_call,
           session, exc, display, event>>
svars == <<db, spc, req, cols, cursor, checked_out, caught, ret, raised>>
vars == <<pc, user_input, task_description, task, proceed, agent_call,
          session, exc, display, event,
          db, spc, req, cols, cursor, checked_out, caught, ret, raised>>

None == <<>>
Some(v) == <<v>>

(***************************************************************************)
(* Client: text                                                            *)
(***************************************************************************)
LowerChar(c) ==
    CASE c = "Y" -> "y"
      [] c = "T" -> "t"
      [] c = "E" -> "e"
      [] c = "X" -> "x"
      [] c = "I" -> "i"
      [] OTHER -> c

\* str.lower()
Lower(s) == [i \in 1..Len(s) |-> LowerChar(s[i])]

\* Lines the user may type at any prompt.
Inputs ==
    { <<"y">>, <<"Y">>, <<"n">>, <<"y","e","s">>, <<" ","y">>, <<>>,
      <<"t","a","s","k">>, <<"T","a","s","k">>,
      <<"e","x","i","t">>, <<"E","X","I","T">>, <<"q","u","i","t">>,
      <<"h","i">> }

\* TaskRequest: three Optional fields (lines 11-14).
TaskRequest ==
    [ task_type   : {None, Some(<<"r">>)},
      description : {None, Some(<<"s","e","n","d">>)},
      priority    : {None, Some(<<"h","i","g","h">>)} ]

\* f"{x}" of an Optional text: None formats as "None".
PyStr(opt) == IF opt = None THEN <<"N","o","n","e">> ELSE opt[1]

\* the three prompts handed to agent.run (lines 65, 78, 83)
ExtractPrompt(d) == [kind |-> "extract", prefix |-> "Analyze a task with the following description: ", text |-> d]
\* ExecutePrompt carrying the task type
ExecutePromptTaskType(t) == [kind |-> "execute", prefix |-> "Execute the following task: ", text |-> PyStr(t.task_type)]

ExecutePrompt(t) == [kind |-> "execute", prefix |-> "Execute the following task: ", text |-> PyStr(t.description)]
FreePrompt(u) == [kind |-> "free", prefix |-> "", text |-> u]

\* Exceptions a wait can end with.  An interrupt is a KeyboardInterrupt
\* raised in the coroutine, or, while the coroutine is suspended in
\* asyncio.run, the CancelledError asyncio delivers for it (line 97).
\* Neither is an Exception; a fault is.
IsException(e) == e \in {"EOFError", "AgentError", "ValidationError"}
InterruptsAtInput == {"KeyboardInterrupt"}
InterruptsAtAwait == {"KeyboardInterrupt", "CancelledError"}

(***************************************************************************)
(* Client: the loop.  Ev records the step for the properties.              *)
(***************************************************************************)
Ev(at, kind) == [at |-> at, kind |-> kind]

ClientInit ==
    /\ pc = "idle"
    /\ user_input = None
    /\ task_description = None
    /\ task = None
    /\ proceed = None
    /\ agent_call = None
    /\ session = "open"
    /\ exc = None
    /\ display = <<"banner">>
    /\ event = Ev("start", "start")

\* HandleInner without the except Exception clause
HandleInnerInterruptOnly(e) ==
    IF e = "KeyboardInterrupt"
    THEN /\ display' = <<"goodbye">>
         /\ pc' = "finally"
         /\ exc' = None
    ELSE /\ display' = <<>>
         /\ pc' = "finally"
         /\ exc' = Some(e)

\* except clauses of the inner try (lines 85-90), for an exception e
\* raised inside it.
HandleInner(e) ==
    IF e = "KeyboardInterrupt"
    THEN /\ display' = <<"goodbye">>
         /\ pc' = "finally"
         /\ exc' = None
    ELSE IF IsException(e)
    THEN /\ display' = <<"error", "try_again">>
         /\ pc' = "idle"
         /\ exc' = None
    ELSE /\ display' = <<>>
         /\ pc' = "finally"
         /\ exc' = Some(e)

\* ReadIdle comparing the commands without lower()
ReadIdleCaseSensitive ==
    /\ pc = "idle"
    /\ \E x \in Inputs :
        /\ user_input' = Some(x)
        /\ event' = Ev("idle", "input")
        /\ IF x \in {<<"e","x","i","t">>, <<"q","u","i","t">>}
           THEN /\ display' = <<"goodbye">>
                /\ pc' = "finally"
                /\ agent_call' = None
           ELSE IF x = <<"t","a","s","k">>
           THEN /\ display' = <<"creating">>
                /\ pc' = "desc_input"
                /\ agent_call' = None
           ELSE /\ display' = <<>>
                /\ pc' = "free_call"
                /\ agent_call' = Some(FreePrompt(x))
    /\ UNCHANGED <<task_description, task, proceed, session, exc>>
    /\ UNCHANGED svars

\* line 54-61, 81-83: input at the Idle prompt and the dispatch on it
ReadIdle ==
    /\ pc = "idle"
    /\ \E x \in Inputs :
        /\ user_input' = Some(x)
        /\ event' = Ev("idle", "input")
        /\ IF Lower(x) \in {<<"e","x","i","t">>, <<"q","u","i","t">>}
           THEN /\ display' = <<"goodbye">>
                /\ pc' = "finally"
                /\ agent_call' = None
           ELSE IF Lower(x) = <<"t","a","s","k">>
           THEN /\ display' = <<"creating">>
                /\ pc' = "desc_input"
                /\ agent_call' = None
           ELSE /\ display' = <<>>
                /\ pc' = "free_call"
                /\ agent_call' = Some(FreePrompt(x))
    /\ UNCHANGED <<task_description, task, proceed, session, exc>>
    /\ UNCHANGED svars

\* line 54 raising: outside the inner try, only the finally clause applies
RaiseIdle ==
    /\ pc = "idle"
    /\ \E e \in InterruptsAtInput \cup {"EOFError"} :
        /\ exc' = Some(e)
        /\ event' = Ev("idle", IF IsException(e) THEN "fault" ELSE "interrupt")
    /\ pc' = "finally"
    /\ display' = <<>>
    /\ UNCHANGED <<user_input, task_description, task, proceed, agent_call, session>>
    /\ UNCHANGED svars

\* ReadDesc honouring exit/quit at the task-description prompt
ReadDescWithExit ==
    /\ pc = "desc_input"
    /\ \E x \in Inputs :
        /\ task_description' = Some(x)
        /\ IF Lower(x) \in {<<"e","x","i","t">>, <<"q","u","i","t">>}
           THEN /\ agent_call' = None
                /\ pc' = "finally"
           ELSE /\ agent_call' = Some(ExtractPrompt(x))
                /\ pc' = "extract_call"
    /\ display' = <<>>
    /\ event' = Ev("desc", "input")
    /\ UNCHANGED <<user_input, task, proceed, session, exc>>
    /\ UNCHANGED svars

\* line 62-64: the task description is read and the extraction call issued
ReadDesc ==
    /\ pc = "desc_input"
    /\ \E x \in Inputs :
        /\ task_description' = Some(x)
        /\ agent_call' = Some(ExtractPrompt(x))
    /\ pc' = "extract_call"
    /\ display' = <<>>
    /\ event' = Ev("desc", "input")
    /\ UNCHANGED <<user_input, task, proceed, session, exc>>
    /\ UNCHANGED svars

RaiseDesc ==
    /\ pc = "desc_input"
    /\ \E e \in InterruptsAtInput \cup {"EOFError"} :
        /\ HandleInner(e)
        /\ event' = Ev("desc", IF IsException(e) THEN "fault" ELSE "interrupt")
    /\ UNCHANGED <<user_input, task_description, task, proceed, agent_call, session>>
    /\ UNCHANGED svars

\* line 64-73: the extraction call returns a TaskRequest, which is shown
ExtractReturn ==
    /\ pc = "extract_call"
    /\ \E t \in TaskRequest : task' = Some(t)
    /\ agent_call' = None
    /\ pc' = "confirm_input"
    /\ display' = <<"analysis">>
    /\ event' = Ev("extract", "return")
    /\ UNCHANGED <<user_input, task_description, proceed, session, exc>>
    /\ UNCHANGED svars

RaiseExtract ==
    /\ pc = "extract_call"
    /\ \E e \in InterruptsAtAwait \cup {"AgentError", "ValidationError"} :
        /\ HandleInner(e)
        /\ event' = Ev("extract", IF IsException(e) THEN "fault" ELSE "interrupt")
    /\ agent_call' = None
    /\ UNCHANGED <<user_input, task_description, task, proceed, session>>
    /\ UNCHANGED svars

\* ReadConfirm accepting every confirmation that starts with "y"
ReadConfirmPrefix ==
    /\ pc = "confirm_input"
    /\ \E x \in Inputs :
        /\ proceed' = Some(x)
        /\ IF Len(x) > 0 /\ Lower(x)[1] = "y"
           THEN /\ agent_call' = Some(ExecutePrompt(task[1]))
                /\ pc' = "exec_call"
           ELSE /\ agent_call' = None
                /\ pc' = "idle"
    /\ display' = <<>>
    /\ event' = Ev("confirm", "input")
    /\ UNCHANGED <<user_input, task_description, task, session, exc>>
    /\ UNCHANGED svars

\* line 75-78: the confirmation is read; the execution call is issued on "y"
ReadConfirm ==
    /\ pc = "confirm_input"
    /\ \E x \in Inputs :
        /\ proceed' = Some(x)
        /\ IF Lower(x) = <<"y">>
           THEN /\ agent_call' = Some(ExecutePrompt(task[1]))
                /\ pc' = "exec_call"
           ELSE /\ agent_call' = None
                /\ pc' = "idle"
    /\ display' = <<>>
    /\ event' = Ev("confirm", "input")
    /\ UNCHANGED <<user_input, task_description, task, session, exc>>
    /\ UNCHANGED svars

RaiseConfirm ==
    /\ pc = "confirm_input"
    /\ \E e \in InterruptsAtInput \cup {"EOFError"} :
        /\ HandleInner(e)
        /\ event' = Ev("confirm", IF IsException(e) THEN "fault" ELSE "interrupt")
    /\ UNCHANGED <<user_input, task_description, task, proceed, agent_call, session>>
    /\ UNCHANGED svars

\* line 77-80: the execution call returns and the response is shown
ExecReturn ==
    /\ pc = "exec_call"
    /\ agent_call' = None
    /\ pc' = "idle"
    /\ display' = <<"assistant">>
    /\ event' = Ev("execute", "return")
    /\ UNCHANGED <<user_input, task_description, task, proceed, session, exc>>
    /\ UNCHANGED svars

RaiseExec ==
    /\ pc = "exec_call"
    /\ \E e \in InterruptsAtAwait \cup {"AgentError"} :
        /\ HandleInner(e)
        /\ event' = Ev("execute", IF IsException(e) THEN "fault" ELSE "interrupt")
    /\ agent_call' = None
    /\ UNCHANGED <<user_input, task_description, task, proceed, session>>
    /\ UNCHANGED svars

\* FreeReturn with the finally clause inside the while loop
FreeReturnReleasing ==
    /\ pc = "free_call"
    /\ agent_call' = None
    /\ pc' = "idle"
    /\ session' = "closed"
    /\ display' = <<"assistant">>
    /\ event' = Ev("free", "return")
    /\ UNCHANGED <<user_input, task_description, task, proceed, exc>>
    /\ UNCHANGED svars

\* line 83-84: the free-form call returns and the response is shown
FreeReturn ==
    /\ pc = "free_call"
    /\ agent_call' = None
    /\ pc' = "idle"
    /\ display' = <<"assistant">>
    /\ event' = Ev("free", "return")
    /\ UNCHANGED <<user_input, task_description, task, proceed, session, exc>>
    /\ UNCHANGED svars

RaiseFree ==
    /\ pc = "free_call"
    /\ \E e \in InterruptsAtAwait \cup {"AgentError"} :
        /\ HandleInner(e)
        /\ event' = Ev("free", IF IsException(e) THEN "fault" ELSE "interrupt")
    /\ agent_call' = None
    /\ UNCHANGED <<user_input, task_description, task, proceed, session>>
    /\ UNCHANGED svars

\* Finally releasing the session only when no exception is pending
FinallyOnReturnOnly ==
    /\ pc = "finally"
    /\ session' = IF exc = None THEN "closed" ELSE session
    /\ pc' = IF exc = None THEN "returned" ELSE "propagated"
    /\ display' = <<>>
    /\ event' = Ev("finally", "release")
    /\ UNCHANGED <<user_input, task_description, task, proceed, agent_call, exc>>
    /\ UNCHANGED svars

\* line 92-93: finally: await client.close_all_sessions(); then the function
\* returns, or the pending exception propagates to the caller
Finally ==
    /\ pc = "finally"
    /\ session' = "closed"
    /\ pc' = IF exc = None THEN "returned" ELSE "propagated"
    /\ display' = <<>>
    /\ event' = Ev("finally", "release")
    /\ UNCHANGED <<user_input, task_description, task, proceed, agent_call, exc>>
    /\ UNCHANGED svars

(***************************************************************************)
(* Server: the database behind the engine                                  *)
(***************************************************************************)
NumRows == 2
MaxCalls == 2
Calls == 1..MaxCalls

TableNames == {"books", "ghost_table"}

\* Column catalog of a table, as Inspector.get_columns reports it.
Catalog ==
    << [name |-> "id", type |-> "INTEGER", nullable |-> FALSE, default |-> None],
       [name |-> "title", type |-> "TEXT", nullable |-> TRUE, default |-> None] >>

\* SQL texts handed to run_sql.
Statements ==
    { [kind |-> "select", table |-> "books"] }
    \cup { [kind |-> "update", table |-> "books"],
           [kind |-> "update_returning", table |-> "books"],
           [kind |-> "create", table |-> "ghost_table"],
           [kind |-> "invalid", table |-> "books"] }

\* f"SELECT * FROM {table_name} LIMIT 5" (line 65)
SampleLimit == 5
SampleSelect(t) == [kind |-> "select_limit", table |-> t]

Take(s, n) == IF Len(s) <= n THEN s ELSE SubSeq(s, 1, n)

\* r._mapping of a result row: the (column, value) pairs in column order
RowMapping(row) == << <<"id", row.id>>, <<"title", row.title>> >>

\* dict(m) of a sequence of (key, value) pairs: the last pair of a key wins
Dict(m) ==
    [k \in {m[i][1] : i \in 1..Len(m)} |->
        LET last == CHOOSE i \in 1..Len(m) :
                        /\ m[i][1] = k
                        /\ \A j \in 1..Len(m) : m[j][1] = k => j <= i
        IN  m[last][2]]

SqlError(m) == [type |-> "SQLAlchemyError", msg |-> m]

\* Failures any database round trip can meet: a driver error, which
\* SQLAlchemy wraps.
Failures == { SqlError("connection lost") }

\* Failures of materialising the rows: those, and an Exception that is not
\* SQLAlchemy's (whose str() may be empty).
FetchFailures == Failures \cup { [type |-> "Exception", msg |-> ""] }

\* the rows WHERE id = 1
Matching(rows) == SelectSeq(rows, LAMBDA r : r.id = 1)

SetTitle(rows) == [i \in 1..Len(rows) |-> IF rows[i].id = 1 THEN [rows[i] EXCEPT !.title = "X"] ELSE rows[i]]

\* The transaction's change to the committed state, applied at commit.
Apply(effect, d) ==
    CASE effect = "update" -> [d EXCEPT !["books"] = Some(SetTitle(d["books"][1]))]
      [] effect = "create" -> [d EXCEPT !["ghost_table"] = Some(<<>>)]
      [] OTHER -> d

Result(returns_rows, produced, rowcount, effect) ==
    [ok |-> TRUE, returns_rows |-> returns_rows, produced |-> produced,
     rowcount |-> rowcount, effect |-> effect]

Rejected(m) == [ok |-> FALSE, error |-> SqlError(m)]

MapRows(rows) == [i \in 1..Len(rows) |-> RowMapping(rows[i])]

\* conn.execute(text(sql)) on the database d: the CursorResult, or the
\* error the database raises.  A cursor of a row-returning statement
\* reports rowcount -1, as does one of a DDL statement.
Execute(stmt, d) ==
    CASE stmt.kind = "invalid" -> Rejected("syntax error")
      [] stmt.kind = "create" ->
            IF d[stmt.table] # None THEN Rejected("already exists")
            ELSE Result(FALSE, <<>>, -1, "create")
      [] d[stmt.table] = None -> Rejected("no such relation")
      [] stmt.kind = "select" -> Result(TRUE, MapRows(d[stmt.table][1]), -1, "none")
      [] stmt.kind = "select_limit" ->
            Result(TRUE, MapRows(Take(d[stmt.table][1], SampleLimit)), -1, "none")
      [] stmt.kind = "update" ->
            Result(FALSE, <<>>, Len(Matching(d[stmt.table][1])), "update")
      [] stmt.kind = "update_returning" ->
            Result(TRUE, MapRows(SetTitle(Matching(d[stmt.table][1]))), -1, "update")

(***************************************************************************)
(* Server: the calls.  Each call c is one invocation of a handler; its     *)
(* steps are the handler's round trips to the database.                    *)
(***************************************************************************)
Requests ==
    [op : {"run_sql"}, arg : Statements]
    \cup [op : {"sample_data", "describe_table"}, arg : TableNames]

\* class SQLQueryResult (lines 38-43)
SQLQueryResult(success, sql, row_count, rows, error) ==
    [success |-> success, sql |-> sql, row_count |-> row_count,
     rows |-> rows, error |-> error]

\* the database when the server starts
InitialDb ==
    [t \in TableNames |->
        IF t = "books" THEN Some([i \in 1..NumRows |-> [id |-> i, title |-> "A"]])
        ELSE None]

ServerInit ==
    /\ db = InitialDb
    /\ spc = [c \in Calls |-> "idle"]
    /\ req = [c \in Calls |-> None]
    /\ cols = [c \in Calls |-> None]
    /\ cursor = [c \in Calls |-> None]
    /\ checked_out = {}
    /\ caught = [c \in Calls |-> None]
    /\ ret = [c \in Calls |-> None]
    /\ raised = [c \in Calls |-> None]

Init == ClientInit /\ ServerInit

\* a call arrives
Invoke(c) ==
    /\ spc[c] = "idle"
    /\ \E r \in Requests :
        /\ req' = [req EXCEPT ![c] = Some(r)]
        /\ spc' = [spc EXCEPT ![c] = IF r.op = "run_sql" THEN "connect" ELSE "inspect"]
    /\ UNCHANGED <<db, cols, cursor, checked_out, caught, ret, raised>>
    /\ UNCHANGED cvars

\* except clauses of run_sql (lines 133-138)
RunSqlExcept(sql_query, e) ==
    IF e.type = "SQLAlchemyError"
    THEN SQLQueryResult(FALSE, sql_query, 0, None, Some(e.msg))
    ELSE SQLQueryResult(FALSE, sql_query, 0, None, Some(e.msg))

\* except clause of sample_data_resource (lines 72-79)
SampleExcept(table_name, e) ==
    [table |-> table_name, columns |-> <<>>, sample_rows |-> <<>>, error |-> Some(e.msg)]

\* Raise without the with block: the connection stays checked out
RaiseLeaking(c, e) ==
    /\ UNCHANGED checked_out
    /\ cursor' = [cursor EXCEPT ![c] = None]
    /\ cols' = [cols EXCEPT ![c] = None]
    /\ spc' = [spc EXCEPT ![c] = "done"]
    /\ IF req[c][1].op = "run_sql"
       THEN /\ ret' = [ret EXCEPT ![c] = Some(RunSqlExcept(req[c][1].arg, e))]
            /\ caught' = [caught EXCEPT ![c] = Some(e)]
            /\ UNCHANGED raised
       ELSE IF req[c][1].op = "sample_data" /\ spc[c] # "inspect"
       THEN /\ ret' = [ret EXCEPT ![c] = Some(SampleExcept(req[c][1].arg, e))]
            /\ caught' = [caught EXCEPT ![c] = Some(e)]
            /\ UNCHANGED raised
       ELSE /\ raised' = [raised EXCEPT ![c] = Some(e)]
            /\ UNCHANGED <<ret, caught>>

\* Raise with run_sql catching SQLAlchemyError only
RaiseSqlErrorsOnly(c, e) ==
    /\ checked_out' = checked_out \ {c}
    /\ cursor' = [cursor EXCEPT ![c] = None]
    /\ cols' = [cols EXCEPT ![c] = None]
    /\ spc' = [spc EXCEPT ![c] = "done"]
    /\ IF req[c][1].op = "run_sql" /\ e.type = "SQLAlchemyError"
       THEN /\ ret' = [ret EXCEPT ![c] = Some(RunSqlExcept(req[c][1].arg, e))]
            /\ caught' = [caught EXCEPT ![c] = Some(e)]
            /\ UNCHANGED raised
       ELSE IF req[c][1].op = "sample_data" /\ spc[c] # "inspect"
       THEN /\ ret' = [ret EXCEPT ![c] = Some(SampleExcept(req[c][1].arg, e))]
            /\ caught' = [caught EXCEPT ![c] = Some(e)]
            /\ UNCHANGED raised
       ELSE /\ raised' = [raised EXCEPT ![c] = Some(e)]
            /\ UNCHANGED <<ret, caught>>

\* Exception e is raised in call c at its current position: the with block,
\* if entered, returns the connection; then the handler's except clause
\* applies, if the position is inside a try.
Raise(c, e) ==
    /\ checked_out' = checked_out \ {c}
    /\ cursor' = [cursor EXCEPT ![c] = None]
    /\ cols' = [cols EXCEPT ![c] = None]
    /\ spc' = [spc EXCEPT ![c] = "done"]
    /\ IF req[c][1].op = "run_sql"
       THEN /\ ret' = [ret EXCEPT ![c] = Some(RunSqlExcept(req[c][1].arg, e))]
            /\ caught' = [caught EXCEPT ![c] = Some(e)]
            /\ UNCHANGED raised
       ELSE IF req[c][1].op = "sample_data" /\ spc[c] # "inspect"
       THEN /\ ret' = [ret EXCEPT ![c] = Some(SampleExcept(req[c][1].arg, e))]
            /\ caught' = [caught EXCEPT ![c] = Some(e)]
            /\ UNCHANGED raised
       ELSE /\ raised' = [raised EXCEPT ![c] = Some(e)]
            /\ UNCHANGED <<ret, caught>>

\* inspect(engine) (lines 59, 106): connects once to initialise the dialect
Inspect(c) ==
    /\ spc[c] = "inspect"
    /\ spc' = [spc EXCEPT ![c] = "get_columns"]
    /\ UNCHANGED <<db, req, cols, cursor, checked_out, caught, ret, raised>>
    /\ UNCHANGED cvars

InspectFail(c) ==
    /\ spc[c] = "inspect"
    /\ \E e \in Failures : Raise(c, e)
    /\ UNCHANGED <<db, req>>
    /\ UNCHANGED cvars

\* one entry of describe_table's columns (lines 109-114)
ColumnDescriptor(col) ==
    [name |-> col.name, type |-> col.type, nullable |-> col.nullable, default |-> col.default]

\* inspector.get_columns(table_name) (lines 62, 108): the catalog of an
\* existing table; NoSuchTableError for a missing one
GetColumns(c) ==
    /\ spc[c] = "get_columns"
    /\ LET table_name == req[c][1].arg IN
       IF db[table_name] = None
       THEN Raise(c, SqlError("NoSuchTableError"))
       ELSE IF req[c][1].op = "sample_data"
       THEN /\ cols' = [cols EXCEPT ![c] = Some([i \in 1..Len(Catalog) |-> Catalog[i].name])]
            /\ spc' = [spc EXCEPT ![c] = "connect"]
            /\ UNCHANGED <<cursor, checked_out, caught, ret, raised>>
       ELSE /\ ret' = [ret EXCEPT ![c] =
                        Some([table |-> table_name,
                              columns |-> [i \in 1..Len(Catalog) |-> ColumnDescriptor(Catalog[i])]])]
            /\ spc' = [spc EXCEPT ![c] = "done"]
            /\ UNCHANGED <<cols, cursor, checked_out, caught, raised>>
    /\ UNCHANGED <<db, req>>
    /\ UNCHANGED cvars

GetColumnsFail(c) ==
    /\ spc[c] = "get_columns"
    /\ \E e \in Failures : Raise(c, e)
    /\ UNCHANGED <<db, req>>
    /\ UNCHANGED cvars

\* with engine.connect() as conn (lines 64, 125)
Connect(c) ==
    /\ spc[c] = "connect"
    /\ checked_out' = checked_out \cup {c}
    /\ spc' = [spc EXCEPT ![c] = "execute"]
    /\ UNCHANGED <<db, req, cols, cursor, caught, ret, raised>>
    /\ UNCHANGED cvars

ConnectFail(c) ==
    /\ spc[c] = "connect"
    /\ \E e \in Failures : Raise(c, e)
    /\ UNCHANGED <<db, req>>
    /\ UNCHANGED cvars

\* the SQL text the call executes (lines 65, 126)
SqlOf(r) == IF r.op = "run_sql" THEN r.arg ELSE SampleSelect(r.arg)

\* conn.execute(text(...)) (lines 65, 126-127); a statement the database
\* rejects raises here
Exec(c) ==
    /\ spc[c] = "execute"
    /\ LET result == Execute(SqlOf(req[c][1]), db) IN
       IF ~result.ok
       THEN Raise(c, result.error)
       ELSE /\ cursor' = [cursor EXCEPT ![c] = Some(result)]
            /\ spc' = [spc EXCEPT ![c] =
                        IF req[c][1].op = "run_sql" /\ ~result.returns_rows
                        THEN "commit" ELSE "fetch"]
            /\ UNCHANGED <<cols, checked_out, caught, ret, raised>>
    /\ UNCHANGED <<db, req>>
    /\ UNCHANGED cvars

ExecFail(c) ==
    /\ spc[c] = "execute"
    /\ \E e \in Failures : Raise(c, e)
    /\ UNCHANGED <<db, req>>
    /\ UNCHANGED cvars

\* [dict(r._mapping) for r in result] (lines 66, 128)
FetchAll(result) == [i \in 1..Len(result.produced) |-> Dict(result.produced[i])]

\* RunSqlRows reporting the cursor's rowcount
RunSqlRowsCursorCount(sql_query, result) ==
    SQLQueryResult(TRUE, sql_query, result.rowcount, Some(FetchAll(result)), None)

\* the row-returning branch of run_sql (lines 128-129)
RunSqlRows(sql_query, result) ==
    LET rows == FetchAll(result)
    IN  SQLQueryResult(TRUE, sql_query, Len(rows), Some(rows), None)

\* the view of sample_data_resource (lines 66-71)
SampleView(table_name, columns, result) ==
    [table |-> table_name, columns |-> columns, sample_rows |-> FetchAll(result),
     error |-> None]

\* Fetch with a conn.commit() before the return
FetchCommitting(c) ==
    /\ spc[c] = "fetch"
    /\ ret' = [ret EXCEPT ![c] =
                IF req[c][1].op = "run_sql"
                THEN Some(RunSqlRows(req[c][1].arg, cursor[c][1]))
                ELSE Some(SampleView(req[c][1].arg, cols[c][1], cursor[c][1]))]
    /\ db' = Apply(cursor[c][1].effect, db)
    /\ checked_out' = checked_out \ {c}
    /\ spc' = [spc EXCEPT ![c] = "done"]
    /\ UNCHANGED <<req, cols, cursor, caught, raised>>
    /\ UNCHANGED cvars

\* rows are materialised, the value is built, and leaving the with block
\* returns the connection (its transaction is rolled back)
Fetch(c) ==
    /\ spc[c] = "fetch"
    /\ ret' = [ret EXCEPT ![c] =
                IF req[c][1].op = "run_sql"
                THEN Some(RunSqlRows(req[c][1].arg, cursor[c][1]))
                ELSE Some(SampleView(req[c][1].arg, cols[c][1], cursor[c][1]))]
    /\ checked_out' = checked_out \ {c}
    /\ spc' = [spc EXCEPT ![c] = "done"]
    /\ UNCHANGED <<db, req, cols, cursor, caught, raised>>
    /\ UNCHANGED cvars

FetchFail(c) ==
    /\ spc[c] = "fetch"
    /\ \E e \in FetchFailures : Raise(c, e)
    /\ UNCHANGED <<db, req>>
    /\ UNCHANGED cvars

\* RunSqlNoRows returning an empty row list
RunSqlNoRowsEmptyList(sql_query, result) ==
    SQLQueryResult(TRUE, sql_query, result.rowcount, Some(<<>>), None)

\* the other branch of run_sql (line 132)
RunSqlNoRows(sql_query, result) ==
    SQLQueryResult(TRUE, sql_query, result.rowcount, None, None)

\* Commit without conn.commit()
CommitMissing(c) ==
    /\ spc[c] = "commit"
    /\ ret' = [ret EXCEPT ![c] = Some(RunSqlNoRows(req[c][1].arg, cursor[c][1]))]
    /\ checked_out' = checked_out \ {c}
    /\ spc' = [spc EXCEPT ![c] = "done"]
    /\ UNCHANGED <<db, req, cols, cursor, caught, raised>>
    /\ UNCHANGED cvars

\* conn.commit() and the return (lines 131-132)
Commit(c) ==
    /\ spc[c] = "commit"
    /\ db' = Apply(cursor[c][1].effect, db)
    /\ ret' = [ret EXCEPT ![c] = Some(RunSqlNoRows(req[c][1].arg, cursor[c][1]))]
    /\ checked_out' = checked_out \ {c}
    /\ spc' = [spc EXCEPT ![c] = "done"]
    /\ UNCHANGED <<req, cols, cursor, caught, raised>>
    /\ UNCHANGED cvars

\* conn.commit() raises (line 131): the connection failed before the
\* database committed, or after it committed and before the driver heard of it
CommitFail(c) ==
    /\ spc[c] = "commit"
    /\ \E e \in Failures : Raise(c, e)
    /\ db' \in {db, Apply(cursor[c][1].effect, db)}
    /\ UNCHANGED req
    /\ UNCHANGED cvars

\* the response leaves the server; nothing of the call is kept
Respond(c) ==
    /\ spc[c] = "done"
    /\ spc' = [spc EXCEPT ![c] = "idle"]
    /\ req' = [req EXCEPT ![c] = None]
    /\ cols' = [cols EXCEPT ![c] = None]
    /\ cursor' = [cursor EXCEPT ![c] = None]
    /\ caught' = [caught EXCEPT ![c] = None]
    /\ ret' = [ret EXCEPT ![c] = None]
    /\ raised' = [raised EXCEPT ![c] = None]
    /\ UNCHANGED <<db, checked_out>>
    /\ UNCHANGED cvars

(***************************************************************************)
(* Server: the handle_query_error prompt (lines 141-164)                   *)
(***************************************************************************)
\* Arguments of the prompt: error_message is a string, table_name and
\* sql_query are Optional strings.
PromptRequests ==
    [op : {"handle_query_error"},
     arg : [error_message : {"syntax error", "no such relation", ""},
            table_name : {None, Some("books"), Some("ghost_table")},
            sql_query : {None, Some("SELECT * FROM bokks"), Some("")}]]

\* f"{x}" of an Optional string
Format(opt) == IF opt = None THEN "None" ELSE opt[1]

\* handle_query_error with table_name formatted where sql_query belongs
HandleQueryErrorOfTable(error_message, table_name, sql_query) ==
    [description |-> "...",
     messages |-> <<
        [role |-> "user",
         content |-> [type |-> "text",
                      text |-> << "You attempted to run this SQL query:\n",
                                  Format(table_name),
                                  "\n\nIt failed with the error:\n",
                                  error_message,
                                  "\n\nHere are your options:\n",
                                  "1. Call list_tables() to check available tables.\n",
                                  "2. Call describe_table(table_name) to inspect schema of the target table.\n",
                                  "3. Once you have correct schema/columns, craft a corrected SQL and call run_sql().\n",
                                  "Which step will you take?" >>]] >>]

\* the value handle_query_error returns (lines 147-164); the text is the
\* sequence of the pieces the f-string concatenates
HandleQueryError(error_message, table_name, sql_query) ==
    [description |-> "...",
     messages |-> <<
        [role |-> "user",
         content |-> [type |-> "text",
                      text |-> << "You attempted to run this SQL query:\n",
                                  Format(sql_query),
                                  "\n\nIt failed with the error:\n",
                                  error_message,
                                  "\n\nHere are your options:\n",
                                  "1. Call list_tables() to check available tables.\n",
                                  "2. Call describe_table(table_name) to inspect schema of the target table.\n",
                                  "3. Once you have correct schema/columns, craft a corrected SQL and call run_sql().\n",
                                  "Which step will you take?" >>]] >>]

\* committed states the prompt may be called in
DbStates ==
    { InitialDb, Apply("update", InitialDb), Apply("create", InitialDb),
      Apply("create", Apply("update", InitialDb)) }

AdvisorInit ==
    /\ ClientInit
    /\ db \in DbStates
    /\ spc = [c \in Calls |-> "idle"]
    /\ req = [c \in Calls |-> None]
    /\ cols = [c \in Calls |-> None]
    /\ cursor = [c \in Calls |-> None]
    /\ checked_out = {}
    /\ caught = [c \in Calls |-> None]
    /\ ret = [c \in Calls |-> None]
    /\ raised = [c \in Calls |-> None]

\* a prompt request arrives
InvokePrompt(c) ==
    /\ spc[c] = "idle"
    /\ \E r \in PromptRequests : req' = [req EXCEPT ![c] = Some(r)]
    /\ spc' = [spc EXCEPT ![c] = "prompt"]
    /\ UNCHANGED <<db, cols, cursor, checked_out, caught, ret, raised>>
    /\ UNCHANGED cvars

\* the body of handle_query_error runs
Prompt(c) ==
    /\ spc[c] = "prompt"
    /\ ret' = [ret EXCEPT ![c] =
                Some(HandleQueryError(req[c][1].arg.error_message,
                                      req[c][1].arg.table_name,
                                      req[c][1].arg.sql_query))]
    /\ spc' = [spc EXCEPT ![c] = "done"]
    /\ UNCHANGED <<db, req, cols, cursor, checked_out, caught, raised>>
    /\ UNCHANGED cvars

(***************************************************************************)
(* Specifications                                                          *)
(***************************************************************************)
NextClient ==
    \/ ReadIdle \/ RaiseIdle
    \/ ReadDesc \/ RaiseDesc
    \/ ExtractReturn \/ RaiseExtract
    \/ ReadConfirm \/ RaiseConfirm
    \/ ExecReturn \/ RaiseExec
    \/ FreeReturn \/ RaiseFree
    \/ Finally

NextServer ==
    \E c \in Calls :
        \/ Invoke(c)
        \/ Inspect(c) \/ InspectFail(c)
        \/ GetColumns(c) \/ GetColumnsFail(c)
        \/ Connect(c) \/ ConnectFail(c)
        \/ Exec(c) \/ ExecFail(c)
        \/ Fetch(c) \/ FetchFail(c)
        \/ Commit(c) \/ CommitFail(c)
        \/ Respond(c)

SpecClient == Init /\ [][NextClient]_vars

SpecServer == Init /\ [][NextServer]_vars

NextAdvisor ==
    \E c \in Calls : InvokePrompt(c) \/ Prompt(c) \/ Respond(c)

SpecAdvisor == AdvisorInit /\ [][NextAdvisor]_vars

(***************************************************************************)
(* Properties of the orchestration loop                                    *)
(***************************************************************************)
YesInputs == { <<"y">>, <<"Y">> }

ExecIssued == agent_call' # None /\ agent_call'[1].kind = "execute" /\ agent_call' # agent_call

ConfirmRead == pc = "confirm_input" /\ event' = Ev("confirm", "input")

\* C1: an execution call is issued only by the step that reads a
\* confirmation equal to "y" or "Y"; a step that reads any other
\* confirmation issues no call and puts the loop back at Idle, and no later
\* step issues the execution call for that task.
C1_ConfirmationGate ==
    [][ /\ ExecIssued => ConfirmRead /\ proceed'[1] \in YesInputs
        /\ ConfirmRead /\ proceed'[1] \in YesInputs => ExecIssued /\ pc' = "exec_call"
        /\ ConfirmRead /\ proceed'[1] \notin YesInputs =>
                agent_call' = None /\ pc' = "idle" /\ session' = "open" ]_vars

C1_Witness ==
    /\ pc = "idle"
    /\ event = Ev("confirm", "input")
    /\ proceed = Some(<<"y","e","s">>)
    /\ agent_call = None

\* C2: whenever the loop function has returned or propagated an exception,
\* the client session has been released.
C2_SessionReleased ==
    pc \in {"returned", "propagated"} => session = "closed"

C2_Witness ==
    /\ pc = "propagated"
    /\ exc = Some("CancelledError")
    /\ session = "closed"

\* C3: a step in which the extraction call, the execution call or the
\* free-form call raises a non-interrupt error displays an error message and
\* leaves the loop at Idle with the session open.
C3_TurnErrorRecovery ==
    [][ event'.kind = "fault" /\ event'.at \in {"extract", "execute", "free"} =>
            /\ pc' = "idle"
            /\ display' # <<>> /\ display'[1] = "error"
            /\ session' = "open"
            /\ exc' = None ]_vars

C3_Witness ==
    /\ event = Ev("execute", "fault")
    /\ pc = "idle"
    /\ display = <<"error", "try_again">>

ExitInputs == { <<"e","x","i","t">>, <<"E","X","I","T">>, <<"q","u","i","t">> }
TaskInputs == { <<"t","a","s","k">>, <<"T","a","s","k">> }

Leaves == pc \notin {"finally", "returned", "propagated"} /\ pc' = "finally"

\* C13: the loop leaves for Terminating only in a step that reads exit or
\* quit at the Idle prompt or in a step in which an interrupt is raised.
C13_OnlyInterruptTerminates ==
    [][Leaves =>
            \/ event'.kind = "interrupt"
            \/ event' = Ev("idle", "input") /\ user_input'[1] \in ExitInputs]_vars

\* C15: the step that reads a line at the Idle prompt goes to Terminating
\* with no agent call on exit/quit, to the task-description prompt with no
\* agent call on task, both in any letter case, and otherwise issues one
\* free-form call carrying the line unchanged; when that call returns the
\* loop is at Idle with no call outstanding.
C15_IdleDispatch ==
    /\ [][event' = Ev("idle", "input") =>
            IF user_input'[1] \in ExitInputs
            THEN pc' = "finally" /\ agent_call' = None
            ELSE IF user_input'[1] \in TaskInputs
            THEN pc' = "desc_input" /\ agent_call' = None
            ELSE /\ pc' = "free_call"
                 /\ agent_call' = Some([kind |-> "free", prefix |-> "", text |-> user_input'[1]])]_vars
    /\ [][pc = "free_call" /\ event'.kind = "return" =>
            pc' = "idle" /\ agent_call' = None /\ display' = <<"assistant">>]_vars

C15_Witness ==
    /\ pc = "finally"
    /\ event = Ev("idle", "input")
    /\ user_input = Some(<<"E","X","I","T">>)
    /\ agent_call = None

\* C16: the confirmation prompt is reached only by the step in which the
\* extraction returns and shows the task, with no call outstanding; the
\* step at the confirmation prompt leaves the task as it is and, if it
\* issues a call, issues the execution call with the description of that
\* task; a call is outstanding exactly while the loop waits for it.
C16_ExecutesConfirmedTask ==
    /\ [][/\ pc' = "confirm_input" =>
                /\ event' = Ev("extract", "return")
                /\ display' = <<"analysis">>
                /\ agent_call' = None
                /\ task' # None
          /\ pc = "confirm_input" =>
                /\ task' = task
                /\ agent_call' # None =>
                        agent_call' = Some([kind |-> "execute",
                                            prefix |-> "Execute the following task: ",
                                            text |-> PyStr(task[1].description)])
          /\ pc = "exec_call" => pc' \in {"idle", "finally"} /\ agent_call' = None ]_vars
    /\ [](agent_call # None <=> pc \in {"extract_call", "exec_call", "free_call"})

C16_Witness ==
    /\ pc = "exec_call"
    /\ task # None
    /\ task[1].description = Some(<<"s","e","n","d">>)
    /\ task[1].task_type = None
    /\ agent_call # None
    /\ agent_call[1].text = <<"s","e","n","d">>

\* C17: the step in which the loop leaves for Terminating displays a
\* message.
C17_NeverSilent ==
    [][Leaves => display' # <<>>]_vars

\* C19: the session is released only while open, and once it is closed it
\* stays closed, no call is outstanding or issued and no input is read.
C19_NoUseAfterRelease ==
    /\ [](session = "closed" => pc \in {"returned", "propagated"} /\ agent_call = None)
    /\ [][/\ event' = Ev("finally", "release") /\ pc = "finally" => session = "open"
          /\ session = "closed" =>
                session' = "closed" /\ agent_call' = None /\ event'.kind # "input" ]_vars

C19_Witness ==
    /\ pc = "returned"
    /\ session = "closed"
    /\ agent_call = None
    /\ display = <<>>

CommandInputs == ExitInputs \cup TaskInputs

\* C20: a command word read at the task-description prompt is sent to the
\* extraction call as the description, and one read at the confirmation
\* prompt issues no call and puts the loop at Idle; in both steps the
\* session stays open.
C20_CommandsOnlyAtIdle ==
    [][/\ event' = Ev("desc", "input") /\ task_description'[1] \in CommandInputs =>
            /\ pc' = "extract_call"
            /\ agent_call' # None
            /\ agent_call'[1].kind = "extract"
            /\ agent_call'[1].text = task_description'[1]
            /\ session' = "open"
       /\ event' = Ev("confirm", "input") /\ proceed'[1] \in CommandInputs =>
            /\ pc' = "idle"
            /\ agent_call' = None
            /\ session' = "open" ]_vars

C20_Witness ==
    /\ pc = "extract_call"
    /\ task_description = Some(<<"q","u","i","t">>)
    /\ agent_call # None
    /\ agent_call[1].kind = "extract"
    /\ session = "open"

(***************************************************************************)
(* Properties of the server calls                                          *)
(***************************************************************************)
Done(c, op) == spc[c] = "done" /\ req[c][1].op = op

RowReturning == {"select", "update_returning"}

\* C5: in every result of run_sql rows and error are not both present,
\* error is present exactly when success is false, and rows are present
\* only on a success of a row-returning statement.
C5_ResultShape ==
    \A c \in Calls : Done(c, "run_sql") /\ ret[c] # None =>
        /\ ~(ret[c][1].rows # None /\ ret[c][1].error # None)
        /\ ret[c][1].error # None <=> ret[c][1].success = FALSE
        /\ ret[c][1].rows # None =>
                ret[c][1].success = TRUE /\ req[c][1].arg.kind \in RowReturning

C5_Witness ==
    \E c \in Calls :
        /\ Done(c, "run_sql")
        /\ ret[c] # None
        /\ ret[c][1].success = TRUE
        /\ ret[c][1].rows = None
        /\ ret[c][1].error = None

\* the database was reachable throughout call c
Reachable(c) == raised[c] = None \/ raised[c][1] \notin Failures

\* C6: describe_table of a table that does not exist, with the database
\* reachable, returns the table name with an empty column list, and no
\* exception leaves the call.
C6_DescribeSoftFailure ==
    \A c \in Calls :
        Done(c, "describe_table") /\ db[req[c][1].arg] = None /\ Reachable(c) =>
            /\ raised[c] = None
            /\ ret[c] = Some([table |-> req[c][1].arg, columns |-> <<>>])

\* C7: no exception leaves a sample-data call; when a failure arose while
\* serving it the view has no columns, no rows and the failure text as
\* error; no view has both columns and an error.
C7_SampleNeverRaises ==
    \A c \in Calls : Done(c, "sample_data") =>
        /\ raised[c] = None
        /\ ret[c] # None
        /\ caught[c] # None =>
                ret[c] = Some([table |-> req[c][1].arg, columns |-> <<>>,
                               sample_rows |-> <<>>, error |-> Some(caught[c][1].msg)])
        /\ ret[c][1].error # None => ret[c][1].columns = <<>>

\* the mapping row holds exactly the (column, value) pairs of m
SameRow(row, m) ==
    /\ DOMAIN row = {m[i][1] : i \in 1..Len(m)}
    /\ \A i \in 1..Len(m) : row[m[i][1]] = m[i][2]

\* C8: a run_sql call whose statement returned rows and in which nothing
\* raised returns success, no error, rows holding the rows the statement
\* produced in order, and row_count equal to their number.
C8_RowReturningResult ==
    \A c \in Calls :
        (/\ Done(c, "run_sql")
         /\ cursor[c] # None /\ cursor[c][1].returns_rows
         /\ caught[c] = None) =>
            /\ ret[c] # None
            /\ ret[c][1].success = TRUE
            /\ ret[c][1].error = None
            /\ ret[c][1].rows # None
            /\ Len(ret[c][1].rows[1]) = Len(cursor[c][1].produced)
            /\ \A i \in 1..Len(cursor[c][1].produced) :
                    SameRow(ret[c][1].rows[1][i], cursor[c][1].produced[i])
            /\ ret[c][1].row_count = Len(ret[c][1].rows[1])

C8_Witness ==
    \E c \in Calls :
        /\ Done(c, "run_sql")
        /\ req[c][1].arg = [kind |-> "select", table |-> "books"]
        /\ ret[c] # None
        /\ ret[c][1].row_count >= 2
        /\ ret[c][1].rows[1][1] = [id |-> 1, title |-> "X"]
        /\ ret[c][1].rows[1][2] = [id |-> 2, title |-> "A"]

NoRowsSuccess(c) ==
    /\ Done(c, "run_sql")
    /\ cursor[c] # None /\ ~cursor[c][1].returns_rows
    /\ caught[c] = None

\* C9: a run_sql call whose statement returned no rows and in which nothing
\* raised returns success, no rows and the cursor's rowcount; the step that
\* completes it commits the statement's change, and the change stays in the
\* committed state every later call reads.
C9_NoRowsCommitted ==
    /\ [](\A c \in Calls : NoRowsSuccess(c) =>
            /\ ret[c] # None
            /\ ret[c][1].success = TRUE
            /\ ret[c][1].rows = None
            /\ ret[c][1].error = None
            /\ ret[c][1].row_count = cursor[c][1].rowcount
            /\ req[c][1].arg.kind = "create" => db["ghost_table"] # None
            /\ req[c][1].arg.kind = "update" =>
                    \A i \in 1..Len(db["books"][1]) :
                        db["books"][1][i].id = 1 => db["books"][1][i].title = "X")
    /\ [][\A c \in Calls : ~NoRowsSuccess(c) /\ NoRowsSuccess(c)' =>
            /\ req[c][1].arg.kind = "create" =>
                    db'["ghost_table"] = Some(<<>>) /\ db'["books"] = db["books"]
            /\ req[c][1].arg.kind = "update" =>
                    /\ db'["ghost_table"] = db["ghost_table"]
                    /\ Len(db'["books"][1]) = Len(db["books"][1])
                    /\ \A i \in 1..Len(db["books"][1]) :
                        db'["books"][1][i] =
                            IF db["books"][1][i].id = 1
                            THEN [id |-> 1, title |-> "X"]
                            ELSE db["books"][1][i] ]_vars

C9_Witness ==
    \E c \in Calls :
        /\ NoRowsSuccess(c)
        /\ req[c][1].arg.kind = "update"
        /\ ret[c][1].row_count = 1
        /\ db["books"][1][1].title = "X"

\* C10: every result of run_sql has row_count >= 0.
C10_RowCountNonNegative ==
    \A c \in Calls : Done(c, "run_sql") /\ ret[c] # None => ret[c][1].row_count >= 0

\* call c takes a step
Steps(c) == spc'[c] # spc[c]

\* C11: no step of a run_sql call whose statement returns rows changes the
\* committed state; when the call has returned its rows, all rows the
\* statement produced are in the result and the call holds no connection.
C11_RowReturningNotCommitted ==
    /\ [][\A c \in Calls :
            (/\ Steps(c)
             /\ req'[c] # None
             /\ req'[c][1].op = "run_sql"
             /\ req'[c][1].arg.kind \in RowReturning) => db' = db]_vars
    /\ [](\A c \in Calls :
            Done(c, "run_sql") /\ ret[c] # None /\ ret[c][1].rows # None =>
                /\ c \notin checked_out
                /\ Len(ret[c][1].rows[1]) = Len(cursor[c][1].produced))

C11_Witness ==
    \E c \in Calls :
        /\ Done(c, "run_sql")
        /\ req[c][1].arg.kind = "update_returning"
        /\ ret[c] # None
        /\ ret[c][1].rows = Some(<<[id |-> 1, title |-> "X"]>>)
        /\ db["books"][1][1].title = "A"
        /\ c \notin checked_out

InFlight(c) == spc[c] \notin {"idle", "done"}

\* C12: in every interleaving of calls, only calls in flight hold a
\* connection, so the connections checked out never outnumber the calls in
\* flight and none is checked out when no call is in flight; a call that has
\* returned or raised holds none.
C12_ScopedCheckout ==
    /\ checked_out \subseteq {c \in Calls : InFlight(c)}
    /\ Cardinality(checked_out) <= Cardinality({c \in Calls : InFlight(c)})
    /\ (\A c \in Calls : ~InFlight(c)) => checked_out = {}

C12_Witness ==
    \E c1, c2 \in Calls :
        /\ {c1, c2} \subseteq checked_out
        /\ req[c1][1].op = "run_sql" /\ spc[c1] = "commit"
        /\ req[c2][1].op = "sample_data" /\ spc[c2] = "fetch"

\* C18: a step in which a run_sql call ends with success false leaves the
\* committed state as it was.
C18_FailedRunSqlChangesNothing ==
    [][\A c \in Calls :
            (/\ Steps(c)
             /\ Done(c, "run_sql")'
             /\ ret'[c] # None
             /\ ret'[c][1].success = FALSE) => db' = db]_vars

RecoverySteps ==
    << "1. Call list_tables() to check available tables.\n",
       "2. Call describe_table(table_name) to inspect schema of the target table.\n",
       "3. Once you have correct schema/columns, craft a corrected SQL and call run_sql().\n" >>

IsStep(piece) == \E i \in 1..Len(RecoverySteps) : piece = RecoverySteps[i]

\* C14: handle_query_error returns one message whose text holds
\* sql_query (when given) and then error_message verbatim, followed by the
\* three steps list_tables, describe_table, run_sql in that order; calls
\* with the same arguments return the same value whatever the database
\* state, and the call changes neither the database nor the pool.
C14_RecoveryGuidance ==
    /\ [](\A c \in Calls : Done(c, "handle_query_error") =>
            /\ raised[c] = None
            /\ ret[c] # None
            /\ Len(ret[c][1].messages) = 1
            /\ LET text == ret[c][1].messages[1].content.text
                   a == req[c][1].arg
               IN  /\ \E i, j \in 1..Len(text) :
                        /\ i < j
                        /\ a.sql_query # None => text[i] = a.sql_query[1]
                        /\ text[j] = a.error_message
                        /\ SelectSeq(SubSeq(text, j + 1, Len(text)), IsStep) = RecoverySteps
                        /\ SelectSeq(text, IsStep) = RecoverySteps)
    /\ [](\A c1, c2 \in Calls :
            (/\ Done(c1, "handle_query_error")
             /\ Done(c2, "handle_query_error")
             /\ req[c1] = req[c2]) => ret[c1] = ret[c2])
    /\ [][\A c \in Calls :
            Steps(c) /\ Done(c, "handle_query_error")' =>
                db' = db /\ checked_out' = checked_out]_vars

C14_Witness ==
    \E c \in Calls :
        /\ Done(c, "handle_query_error")
        /\ req[c][1].arg.sql_query = Some("SELECT * FROM bokks")
        /\ req[c][1].arg.table_name = None
        /\ req[c][1].arg.error_message = "no such relation"
        /\ ret[c] # None
        /\ ret[c][1].messages[1].content.text[2] = "SELECT * FROM bokks"
        /\ ret[c][1].messages[1].content.text[4] = "no such relation"
        /\ db["ghost_table"] # None

====
